---------------------------- MODULE Spec2Model ----------------------------
(*************************************************************************)
(* Model of the albumoftheyear-api service: the in-process LRUCache      *)
(* (app/utils/cache.py), the MetricsCollector (app/utils/metrics.py),    *)
(* and the request handlers of app/main.py with the scraper and the      *)
(* remote cache they call.                                               *)
(*************************************************************************)
EXTENDS Integers, Sequences, FiniteSets, TLC

(***************************************************************************)
(* Bounds of the model and the instantiated constructor parameters.        *)
(***************************************************************************)
\* LRUCache(max_size=...): capacity the cache is constructed with
MaxSize == 2
\* LRUCache(ttl=...): time to live, in clock ticks
TTL == 2
\* the clock stops advancing here
MaxTime == 4
\* the same, when the callers are concurrent threads
ConcMaxTime == 2
\* calls made on the MetricsCollector
MaxCalls == 5
\* Metrics objects ever created (one per reset, and the first)
MaxObjs == 2
\* requests the API receives
MaxReqs == 2
\* rows or blocks in one region of an album page
MaxItems == 2
\* album blocks on a similar-albums listing
MaxBlocks == 4
\* .profileStatContainer elements on a profile page
MaxStats == 4

Keys == {"a", "b", "c"}
Vals == {"v1", "v2"}
\* Python's None
None == "None"

VARIABLES
    cache,      \* LRUCache._cache: OrderedDict, as a sequence of [k, v], oldest first
    expiry,     \* LRUCache._expiry: dict key -> absolute expiry time
    now,        \* datetime.now()
    last,       \* history: the last call made on the cache, with what it returned
    lastUse,    \* history: rank of each key's last set or successful get (0: never)
    written,    \* history: per key the value and time of the set still in force
    everSet,    \* history: keys that were ever set
    lock,       \* LRUCache._lock: the thread holding it, or NoThread
    th,         \* per thread: the call in progress, its place in it, its locals
    seq,        \* history: the maps as the completed calls, one after another, leave them
    objs,       \* the Metrics objects created so far (the heap), in order of creation
    mref,       \* MetricsCollector._metrics: the object it refers to (index into objs)
    mlock,      \* MetricsCollector._lock: the thread holding it, or NoThread
    mth,        \* per thread: the collector call in progress, its place, its locals
    snap,       \* history: what the last get_metrics returned, and the values it had then
    mhist,      \* history: the completed collector calls since the last fresh Metrics()
    reqs,       \* per request of the API: its handler's place, and what it has done
    redis,      \* the remote cache: cache key -> the value stored under it
    trace,      \* history: per request, how its get_cache and set_cache calls went
    acq,        \* one acquisition followed in detail: its place, what it fetched and built
    tasks,      \* scrape_album's four extraction subtasks: their state and result
    finished    \* the subtasks in the order they completed

cacheVars == <<cache, expiry, now, last, lastUse, written, everSet>>

histVars == <<last, lastUse, written, everSet>>

concVars == <<lock, th, seq>>

metricsVars == <<objs, mref, mlock, mth, snap, mhist>>

apiVars == <<reqs, redis, trace>>

acqVars == <<acq, tasks, finished>>

\* what the actions of one component leave alone in the others
restOfCache == <<concVars, metricsVars, apiVars, acqVars>>

restOfConc == <<histVars, metricsVars, apiVars, acqVars>>

restOfMetrics == <<cacheVars, concVars, apiVars, acqVars>>

\* the handlers use the collector's Metrics object, and nothing else of it
restOfHandlers == <<cacheVars, concVars, mref, mlock, mth, snap, mhist, acqVars>>

restOfApi == <<restOfHandlers, trace>>

restOfAcq == <<cacheVars, concVars, mref, mlock, mth, snap, mhist, reqs, trace>>

vars == <<cache, expiry, now, last, lastUse, written, everSet, lock, th, seq,
          objs, mref, mlock, mth, snap, mhist, reqs, redis, trace, acq, tasks,
          finished>>

(***************************************************************************)
(* OrderedDict and dict helpers.                                           *)
(***************************************************************************)
CacheKeys(c) == {c[i].k : i \in DOMAIN c}

\* self._cache[key]
CacheVal(c, key) == (CHOOSE i \in DOMAIN c : c[i].k = key)


\* OrderedDict.pop(key, None): the entry leaves, the others keep their order
OdPop(c, key) == SelectSeq(c, LAMBDA e : e.k # key)

\* OrderedDict[key] = value: a new key is appended at the end, a key that is
\* there keeps its place
OdAssign(c, key, value) ==
    IF key \in CacheKeys(c)
    THEN [i \in DOMAIN c |-> IF c[i].k = key THEN [k |-> key, v |-> value] ELSE c[i]]
    ELSE Append(c, [k |-> key, v |-> value])

\* dict.pop(key, None)
DictPop(e, key) == [j \in (DOMAIN e) \ {key} |-> e[j]]

\* dict[key] = value
DictPut(e, key, value) == [j \in (DOMAIN e) \cup {key} |-> IF j = key THEN value ELSE e[j]]

EmptyDict == [j \in {} |-> 0]


(***************************************************************************)
(* LRUCache (app/utils/cache.py).  An operation is a function of the two   *)
(* maps, its arguments and the time datetime.now() returns inside it; the  *)
(* result carries the new maps and what the call returned.                 *)
(***************************************************************************)
\* mutant: the entry outlives its expiry time by one comparison
ExpiredStrict(t, exp) == t > exp

\* get: datetime.now() >= self._expiry[key]
Expired(t, exp) == t >= exp

\* mutant: the ttl is not added
ExpiryForNoTtl(t) == t

\* set: datetime.now() + self._ttl
ExpiryFor(t) == t + TTL

\* mutant: the newest entry is taken for the oldest
NewestKey(c) == c[Len(c)].k

\* set: next(iter(self._cache))
OldestKey(c) == c[1].k

\* set: len(self._cache) >= self._max_size
AtCapacity(c) == Len(c) >= MaxSize

\* mutant: the entry is not moved
MoveToEndSkipped(c, key) == c

\* get: value = self._cache.pop(key); self._cache[key] = value
MoveToEnd(c, key) == OdAssign(OdPop(c, key), key, c[CacheVal(c, key)].v)

\* mutant: the expiry time of a removed entry is left behind
RemoveValueOnly(c, e, key) == [cache |-> OdPop(c, key), expiry |-> e]

\* _remove(key)
Remove(c, e, key) == [cache |-> OdPop(c, key), expiry |-> DictPop(e, key)]

LRUGet(c, e, key, t) ==
    IF key \notin CacheKeys(c)
    THEN [cache |-> c, expiry |-> e, res |-> None, removed |-> FALSE]
    ELSE IF Expired(t, e[key])
         THEN [cache |-> Remove(c, e, key).cache,
               expiry |-> Remove(c, e, key).expiry, res |-> None,
               removed |-> TRUE]
         ELSE [cache |-> MoveToEnd(c, key), expiry |-> e,
               res |-> c[CacheVal(c, key)].v, removed |-> FALSE]

\* mutant: the stored entry keeps its place
OverwrittenInPlace(c, key) == c

\* set: if key in self._cache: self._cache.pop(key)
Overwritten(c, key) == OdPop(c, key)

LRUSet(c, e, key, value, t) ==
    LET pre == IF key \in CacheKeys(c)
               THEN [cache |-> Overwritten(c, key), expiry |-> e, evicted |-> None]
               ELSE IF AtCapacity(c)
                    THEN [cache |-> Remove(c, e, OldestKey(c)).cache,
                          expiry |-> Remove(c, e, OldestKey(c)).expiry,
                          evicted |-> OldestKey(c)]
                    ELSE [cache |-> c, expiry |-> e, evicted |-> None]
    IN  [cache |-> OdAssign(pre.cache, key, value),
         expiry |-> DictPut(pre.expiry, key, ExpiryFor(t)),
         evicted |-> pre.evicted]

LRUClear == [cache |-> <<>>, expiry |-> EmptyDict]

(***************************************************************************)
(* History kept beside the cache, to state what the calls promise.         *)
(***************************************************************************)
MaxOf(S) == CHOOSE x \in S : \A y \in S : y <= x

\* the ranks 1..n of the positive stamps, order kept
Ranked(f) == [k \in DOMAIN f |->
                 IF f[k] = 0 THEN 0
                 ELSE Cardinality({j \in DOMAIN f : f[j] > 0 /\ f[j] < f[k]}) + 1]

\* key was used just now: it gets the newest stamp
Touch(f, key) == Ranked([f EXCEPT ![key] = MaxOf({f[j] : j \in DOMAIN f}) + 1])

\* pos: where the key stood in the OrderedDict when the call began (0: absent);
\* removed: the call took the _remove branch of get
NoCall == [op |-> "none", key |-> None, val |-> None, res |-> None,
           at |-> 0, evicted |-> None, pos |-> 0, removed |-> FALSE]

\* no set of the key is in force
NoWrite == [v |-> None, at |-> 0]

PosOf(c, key) == IF key \in CacheKeys(c) THEN CacheVal(c, key) ELSE 0

CacheInit ==
    /\ cache = <<>>
    /\ expiry = EmptyDict
    /\ now = 0
    /\ last = NoCall
    /\ lastUse = [k \in Keys |-> 0]
    /\ written = [k \in Keys |-> NoWrite]
    /\ everSet = {}

Get(key) ==
    LET r == LRUGet(cache, expiry, key, now) IN
    /\ cache' = r.cache
    /\ expiry' = r.expiry
    /\ last' = [op |-> "get", key |-> key, val |-> None, res |-> r.res,
                at |-> now, evicted |-> None, pos |-> PosOf(cache, key),
                removed |-> r.removed]
    /\ lastUse' = IF r.res # None THEN Touch(lastUse, key) ELSE lastUse
    /\ UNCHANGED <<now, written, everSet>>
    /\ UNCHANGED restOfCache

Set(key, value) ==
    LET r == LRUSet(cache, expiry, key, value, now) IN
    /\ cache' = r.cache
    /\ expiry' = r.expiry
    /\ last' = [op |-> "set", key |-> key, val |-> value, res |-> None,
                at |-> now, evicted |-> r.evicted, pos |-> PosOf(cache, key),
                removed |-> FALSE]
    /\ lastUse' = Touch(lastUse, key)
    /\ written' = [k \in Keys |->
                     IF k = key THEN [v |-> value, at |-> now]
                     ELSE IF k \in CacheKeys(cache) \ CacheKeys(r.cache) THEN NoWrite
                     ELSE written[k]]
    /\ everSet' = everSet \cup {key}
    /\ UNCHANGED now
    /\ UNCHANGED restOfCache

Clear ==
    /\ cache' = LRUClear.cache
    /\ expiry' = LRUClear.expiry
    /\ last' = [NoCall EXCEPT !.op = "clear", !.at = now]
    /\ written' = [k \in Keys |-> NoWrite]
    /\ UNCHANGED <<now, lastUse, everSet>>
    /\ UNCHANGED restOfCache

\* time passes between calls
Tick ==
    /\ now < MaxTime
    /\ now' = now + 1
    /\ last' = [NoCall EXCEPT !.op = "tick", !.at = now + 1]
    /\ UNCHANGED <<cache, expiry, lastUse, written, everSet>>
    /\ UNCHANGED restOfCache

CacheNext ==
    \/ \E key \in Keys : Get(key)
    \/ \E key \in Keys, value \in Vals : Set(key, value)
    \/ Clear
    \/ Tick

\* threading.Lock(): nobody holds it
NoThread == "nobody"

Threads == {"t1", "t2"}

\* the values the concurrent callers set
ConcVals == {"v1"}

Idle == [pc |-> "idle", op |-> "none", key |-> None, val |-> None,
         tr |-> 0, tmp |-> None, res |-> None]

ConcInit ==
    /\ lock = NoThread
    /\ th = [t \in Threads |-> Idle]
    /\ seq = [cache |-> <<>>, expiry |-> EmptyDict]

(***************************************************************************)
(* LRUCache: the properties.                                               *)
(***************************************************************************)
\* C1: read-your-write.  A get of a key that was never set returns None, and
\* a get of a key returns the value of the set still in force (not evicted,
\* overwritten or cleared since) when less than TTL has passed since that set.
C1_ReadYourWrite ==
    last.op = "get" =>
        /\ (last.key \notin everSet => last.res = None)
        /\ (written[last.key] # NoWrite /\ last.at < written[last.key].at + TTL
                => last.res = written[last.key].v)

\* a get one tick before the expiry returned the value that was set
C1_Witness ==
    /\ last.op = "get"
    /\ written[last.key] # NoWrite
    /\ last.at = written[last.key].at + TTL - 1
    /\ last.res = written[last.key].v

\* the least recently used key of a cache: its last set or successful get is oldest
LruOf(c, use) == CHOOSE k \in CacheKeys(c) : \A j \in CacheKeys(c) : use[k] <= use[j]

\* C2: eviction.  A set of a key that is not in a cache holding exactly
\* MaxSize entries removes exactly one entry, the least recently used one;
\* every other entry stays as it was, and the new key is in.
C2_EvictsLeastRecentlyUsed ==
    [][ (last'.op = "set" /\ Len(cache) = MaxSize /\ last'.key \notin CacheKeys(cache))
          => /\ CacheKeys(cache') =
                   (CacheKeys(cache) \ {LruOf(cache, lastUse)}) \cup {last'.key}
             /\ Len(cache') = MaxSize
             /\ last'.evicted = LruOf(cache, lastUse)
             /\ \A i \in DOMAIN cache :
                   cache[i].k # LruOf(cache, lastUse)
                      => /\ \E j \in DOMAIN cache' : cache'[j] = cache[i]
                         /\ cache[i].k \in DOMAIN expiry'
                         /\ expiry'[cache[i].k] = expiry[cache[i].k]
      ]_vars

\* a set has evicted a key from a full cache
C2_Witness ==
    /\ last.op = "set"
    /\ last.evicted # None
    /\ last.evicted \notin CacheKeys(cache)
    /\ Len(cache) = MaxSize

\* C3: lazy expiry.  A get of a stored key at or after insertion time + TTL
\* returns None and removes the key from both maps, so the cache holds one
\* entry less; a get of a key that is not stored returns None and leaves
\* both maps alone, so the key stays absent until it is set again.
C3_LazyExpiry ==
    [][ /\ (/\ last'.op = "get"
            /\ last'.key \in CacheKeys(cache)
            /\ now >= written[last'.key].at + TTL)
              => /\ last'.res = None
                 /\ last'.key \notin CacheKeys(cache')
                 /\ last'.key \notin DOMAIN expiry'
                 /\ Len(cache') = Len(cache) - 1
        /\ (last'.op = "get" /\ last'.key \notin CacheKeys(cache))
              => /\ last'.res = None
                 /\ cache' = cache
                 /\ expiry' = expiry
      ]_vars

\* a get at exactly the expiry time found the entry and removed it
C3_Witness ==
    /\ last.op = "get"
    /\ last.removed
    /\ last.res = None
    /\ written[last.key] # NoWrite
    /\ last.at = written[last.key].at + TTL
    /\ last.key \notin CacheKeys(cache)

\* C4: recency bump.  A successful get puts the key last in the recency
\* order with its value and every expiry time unchanged and the other
\* entries as they were; a get that returns None leaves the order of the
\* other entries alone; and the set that follows a successful get of key k
\* in a cache of two or more entries never evicts k: it evicts the entry
\* that was least recently used among the others.
C4_RecencyBump ==
    [][ /\ (last'.op = "get" /\ last'.res # None)
              => /\ cache'[Len(cache')] = [k |-> last'.key, v |-> last'.res]
                 /\ \E i \in DOMAIN cache : cache[i] = [k |-> last'.key, v |-> last'.res]
                 /\ expiry' = expiry
                 /\ OdPop(cache', last'.key) = OdPop(cache, last'.key)
        /\ (last'.op = "get" /\ last'.res = None)
              => OdPop(cache', last'.key) = OdPop(cache, last'.key)
        /\ (/\ last.op = "get" /\ last.res # None
            /\ last'.op = "set" /\ last'.evicted # None
            /\ Len(cache) >= 2)
              => /\ last'.evicted # last.key
                 /\ \A j \in CacheKeys(cache) \ {last'.evicted} :
                        lastUse[last'.evicted] < lastUse[j]
      ]_vars

\* a successful get of the oldest entry of a full cache
C4_Witness ==
    /\ last.op = "get"
    /\ last.res # None
    /\ last.pos = 1
    /\ Len(cache) = MaxSize
    /\ MaxSize >= 2

\* C21: structure.  In every state the calls get, set and clear can lead to,
\* the cache holds at most MaxSize entries, no key twice, and the keys of
\* the value map are exactly the keys of the expiry map.
C21_Structure ==
    /\ Len(cache) <= MaxSize
    /\ Cardinality(CacheKeys(cache)) = Len(cache)
    /\ CacheKeys(cache) = DOMAIN expiry

\* every key has been set, the last set evicted an entry of the full cache,
\* and a key that was in use is no longer stored
C21_Witness ==
    /\ everSet = Keys
    /\ last.op = "set"
    /\ last.evicted # None
    /\ Len(cache) = MaxSize
    /\ DOMAIN expiry = CacheKeys(cache)
    /\ \E k \in Keys : written[k] = NoWrite /\ lastUse[k] > 0

\* C22: overwrite.  A set of a key that is stored puts the new value under
\* it, sets its expiry time to the time of this set + TTL, makes it the last
\* (most recently used) entry, and evicts nothing, also from a full cache:
\* the other entries stay in their order with their values and expiry
\* times, and the number of entries is unchanged.
C22_Overwrite ==
    [][ (last'.op = "set" /\ last'.key \in CacheKeys(cache))
          => /\ cache'[Len(cache')] = [k |-> last'.key, v |-> last'.val]
             /\ expiry'[last'.key] = now + TTL
             /\ lastUse'[last'.key] = MaxOf({lastUse'[j] : j \in Keys})
             /\ Len(cache') = Len(cache)
             /\ last'.evicted = None
             /\ CacheKeys(cache') = CacheKeys(cache)
             /\ SelectSeq(cache', LAMBDA en : en.k # last'.key)
                   = SelectSeq(cache, LAMBDA en : en.k # last'.key)
             /\ \A j \in CacheKeys(cache) \ {last'.key} : expiry'[j] = expiry[j]
      ]_vars

\* the oldest entry of a full cache was set again, later than the entry
\* that is stored beside it
C22_Witness ==
    /\ last.op = "set"
    /\ last.pos = 1
    /\ last.evicted = None
    /\ Len(cache) = MaxSize
    /\ MaxSize >= 2
    /\ cache[Len(cache)].k = last.key
    /\ expiry[last.key] = last.at + TTL
    /\ \E j \in CacheKeys(cache) : expiry[j] < expiry[last.key]

(***************************************************************************)
(* LRUCache under concurrent callers: every method body runs statement by  *)
(* statement inside `with self._lock`.  A place is named after the line of *)
(* cache.py the thread is about to execute.                                *)
(***************************************************************************)
\* mutant: the lock excludes nobody
LockAlwaysFree(l) == TRUE

\* threading.Lock.acquire(): blocks while another thread holds the lock
LockFree(l) == l = NoThread

Goto(t, place) == [th EXCEPT ![t].pc = place]

\* return (or raise) out of the with block
Return(t, result) == [th EXCEPT ![t].pc = "unlock", ![t].res = result]

\* a caller enters get, set or clear and arrives at `with self._lock`; which
\* call it is shows only when its body runs, so it is fixed at the acquire
ConcCall(t) ==
    /\ th[t].pc = "idle"
    /\ th' = [th EXCEPT ![t] = [Idle EXCEPT !.pc = "lock"]]
    /\ UNCHANGED <<cache, expiry, now, lock, seq>>
    /\ UNCHANGED restOfConc

\* the thread gets the lock and is at the first statement of its call
ConcAcquire(t, op, key, value) ==
    /\ th[t].pc = "lock"
    /\ LockFree(lock)
    /\ lock' = t
    /\ th' = [th EXCEPT ![t] = [Idle EXCEPT !.op = op, !.key = key, !.val = value,
                                            !.pc = CASE op = "get" -> "g17"
                                                     [] op = "set" -> "s31"
                                                     [] op = "clear" -> "c47"]]
    /\ UNCHANGED <<cache, expiry, now, seq>>
    /\ UNCHANGED restOfConc

\* the thread gets the lock, for whichever call it is making
ConcEnter(t) ==
    \/ \E key \in Keys : ConcAcquire(t, "get", key, None)
    \/ \E key \in Keys, value \in ConcVals : ConcAcquire(t, "set", key, value)
    \/ ConcAcquire(t, "clear", None, None)

\* get, line 17: if key not in self._cache: return None
G17(t) ==
    /\ th[t].pc = "g17"
    /\ th' = IF th[t].key \notin CacheKeys(cache) THEN Return(t, None)
             ELSE Goto(t, "g20")
    /\ UNCHANGED <<cache, expiry, now, lock, seq>>
    /\ UNCHANGED restOfConc

\* get, line 20: if datetime.now() >= self._expiry[key]
G20(t) ==
    /\ th[t].pc = "g20"
    /\ th' = IF th[t].key \notin DOMAIN expiry
             THEN Return(t, "KeyError")
             ELSE [th EXCEPT ![t].tr = now,
                             ![t].pc = IF Expired(now, expiry[th[t].key])
                                       THEN "g42" ELSE "g25"]
    /\ UNCHANGED <<cache, expiry, now, lock, seq>>
    /\ UNCHANGED restOfConc

\* _remove called from get, line 42: self._cache.pop(key, None)
G42(t) ==
    /\ th[t].pc = "g42"
    /\ cache' = OdPop(cache, th[t].key)
    /\ th' = Goto(t, "g43")
    /\ UNCHANGED <<expiry, now, lock, seq>>
    /\ UNCHANGED restOfConc

\* _remove called from get, line 43: self._expiry.pop(key, None); return None
G43(t) ==
    /\ th[t].pc = "g43"
    /\ expiry' = DictPop(expiry, th[t].key)
    /\ th' = Return(t, None)
    /\ UNCHANGED <<cache, now, lock, seq>>
    /\ UNCHANGED restOfConc

\* get, line 25: value = self._cache.pop(key)
G25(t) ==
    /\ th[t].pc = "g25"
    /\ IF th[t].key \notin CacheKeys(cache)
       THEN th' = Return(t, "KeyError") /\ cache' = cache
       ELSE /\ th' = [th EXCEPT ![t].tmp = cache[CacheVal(cache, th[t].key)].v,
                                ![t].pc = "g26"]
            /\ cache' = OdPop(cache, th[t].key)
    /\ UNCHANGED <<expiry, now, lock, seq>>
    /\ UNCHANGED restOfConc

\* get, lines 26-27: self._cache[key] = value; return value
G26(t) ==
    /\ th[t].pc = "g26"
    /\ cache' = OdAssign(cache, th[t].key, th[t].tmp)
    /\ th' = Return(t, th[t].tmp)
    /\ UNCHANGED <<expiry, now, lock, seq>>
    /\ UNCHANGED restOfConc

\* set, lines 31-35: pop the key, or pick the oldest key when at capacity
S31(t) ==
    /\ th[t].pc = "s31"
    /\ IF th[t].key \in CacheKeys(cache)
       THEN cache' = OdPop(cache, th[t].key) /\ th' = Goto(t, "s38")
       ELSE IF AtCapacity(cache)
            THEN /\ cache' = cache
                 /\ th' = IF cache = <<>> THEN Return(t, "StopIteration")
                          ELSE [th EXCEPT ![t].tmp = OldestKey(cache), ![t].pc = "s42"]
            ELSE cache' = cache /\ th' = Goto(t, "s38")
    /\ UNCHANGED <<expiry, now, lock, seq>>
    /\ UNCHANGED restOfConc

\* _remove called from set, line 42: self._cache.pop(oldest_key, None)
S42(t) ==
    /\ th[t].pc = "s42"
    /\ cache' = OdPop(cache, th[t].tmp)
    /\ th' = Goto(t, "s43")
    /\ UNCHANGED <<expiry, now, lock, seq>>
    /\ UNCHANGED restOfConc

\* _remove called from set, line 43: self._expiry.pop(oldest_key, None)
S43(t) ==
    /\ th[t].pc = "s43"
    /\ expiry' = DictPop(expiry, th[t].tmp)
    /\ th' = Goto(t, "s38")
    /\ UNCHANGED <<cache, now, lock, seq>>
    /\ UNCHANGED restOfConc

\* set, line 38: self._cache[key] = value
S38(t) ==
    /\ th[t].pc = "s38"
    /\ cache' = OdAssign(cache, th[t].key, th[t].val)
    /\ th' = Goto(t, "s39")
    /\ UNCHANGED <<expiry, now, lock, seq>>
    /\ UNCHANGED restOfConc

\* set, line 39: self._expiry[key] = datetime.now() + self._ttl
S39(t) ==
    /\ th[t].pc = "s39"
    /\ expiry' = DictPut(expiry, th[t].key, ExpiryFor(now))
    /\ th' = [Return(t, None) EXCEPT ![t].tr = now]
    /\ UNCHANGED <<cache, now, lock, seq>>
    /\ UNCHANGED restOfConc

\* clear, line 47: self._cache.clear()
C47(t) ==
    /\ th[t].pc = "c47"
    /\ cache' = <<>>
    /\ th' = Goto(t, "c48")
    /\ UNCHANGED <<expiry, now, lock, seq>>
    /\ UNCHANGED restOfConc

\* clear, line 48: self._expiry.clear()
C48(t) ==
    /\ th[t].pc = "c48"
    /\ expiry' = EmptyDict
    /\ th' = Return(t, None)
    /\ UNCHANGED <<cache, now, lock, seq>>
    /\ UNCHANGED restOfConc

\* the call c made alone on the maps s: what it leaves and what it returns
SeqApply(s, c) ==
    CASE c.op = "get" ->
            [cache |-> LRUGet(s.cache, s.expiry, c.key, c.tr).cache,
             expiry |-> LRUGet(s.cache, s.expiry, c.key, c.tr).expiry,
             res |-> LRUGet(s.cache, s.expiry, c.key, c.tr).res]
      [] c.op = "set" ->
            [cache |-> LRUSet(s.cache, s.expiry, c.key, c.val, c.tr).cache,
             expiry |-> LRUSet(s.cache, s.expiry, c.key, c.val, c.tr).expiry,
             res |-> None]
      [] c.op = "clear" ->
            [cache |-> LRUClear.cache, expiry |-> LRUClear.expiry, res |-> None]

\* the with block is left: the lock is released and the call returns
ConcRelease(t) ==
    /\ th[t].pc = "unlock"
    /\ lock' = NoThread
    /\ th' = [th EXCEPT ![t] = Idle]
    /\ seq' = [cache |-> SeqApply(seq, th[t]).cache,
               expiry |-> SeqApply(seq, th[t]).expiry]
    /\ UNCHANGED <<cache, expiry, now>>
    /\ UNCHANGED restOfConc

\* the statements of the method bodies and the release, for thread t
ConcRun(t) ==
    \/ G17(t) \/ G20(t) \/ G42(t) \/ G43(t) \/ G25(t) \/ G26(t)
    \/ S31(t) \/ S42(t) \/ S43(t) \/ S38(t) \/ S39(t)
    \/ C47(t) \/ C48(t)
    \/ ConcRelease(t)

ConcTick ==
    /\ now < ConcMaxTime
    /\ now' = now + 1
    /\ UNCHANGED <<cache, expiry, lock, th, seq>>
    /\ UNCHANGED restOfConc

ConcNext ==
    \/ \E t \in Threads : ConcCall(t)
    \/ \E t \in Threads : ConcEnter(t)
    \/ \E t \in Threads : ConcRun(t)
    \/ ConcTick

RECURSIVE Gcd(_, _)
Gcd(a, b) == IF b = 0 THEN a ELSE Gcd(b, a % b)

Abs(a) == IF a < 0 THEN 0 - a ELSE a

\* the fraction n/d, d > 0, in lowest terms
Rat(n, d) == [num |-> n \div Gcd(Abs(n), d), den |-> d \div Gcd(Abs(n), d)]

RatTimesInt(q, i) == Rat(q.num * i, q.den)

RatPlusInt(q, i) == Rat(q.num + i * q.den, q.den)

RatOverInt(q, i) == Rat(q.num, q.den * i)

Durations == {1, 2}

\* Metrics(): the dataclass defaults; last_reset's default was evaluated once,
\* when the class was defined (time 0)
NewMetrics == [total_requests |-> 0, cache_hits |-> 0, cache_misses |-> 0,
               errors |-> 0, avg_response_time |-> Rat(0, 1), last_reset |-> 0]

\* record_request, line 26: self._metrics.total_requests += 1
IncTotal(m) == [m EXCEPT !.total_requests = @ + 1]

\* mutant: a miss is counted as a hit
IncHitOnly(m, hit) == [m EXCEPT !.cache_hits = @ + 1]

\* record_request, lines 27-30
IncHitOrMiss(m, hit) ==
    IF hit THEN [m EXCEPT !.cache_hits = @ + 1]
    ELSE [m EXCEPT !.cache_misses = @ + 1]

RecordRequest(m, hit) == IncHitOrMiss(IncTotal(m), hit)

\* record_error, line 34
RecordError(m) == [m EXCEPT !.errors = @ + 1]

\* mutant: the mean is weighted by n instead of n - 1
RunningTotalOffByOne(avg, n) == RatTimesInt(avg, n)

\* record_response_time, line 39: total = current_avg * (total_requests - 1)
RunningTotal(avg, n) == RatTimesInt(avg, n - 1)

\* record_response_time, lines 40-42: (total + duration) / total_requests
NewAverage(total, duration, n) == RatOverInt(RatPlusInt(total, duration), n)

\* the whole of record_response_time; with no request recorded the division
\* raises ZeroDivisionError and nothing is assigned
RecordResponseTime(m, duration) ==
    IF m.total_requests = 0 THEN m
    ELSE [m EXCEPT !.avg_response_time =
              NewAverage(RunningTotal(m.avg_response_time, m.total_requests),
                         duration, m.total_requests)]

MIdle == [pc |-> "idle", op |-> "none", hit |-> FALSE, d |-> 0,
          current_avg |-> Rat(0, 1), total |-> Rat(0, 1), res |-> 0]

NoSnap == [ref |-> 0, taken |-> NewMetrics]

FreshHist == [r |-> 0, h |-> 0, e |-> 0, n |-> 0, sum |-> 0, pend |-> 0,
              paired |-> TRUE, calls |-> 0]

MetricsInit ==
    /\ objs = <<NewMetrics>>
    /\ mref = 1
    /\ mlock = NoThread
    /\ mth = [t \in Threads |-> MIdle]
    /\ snap = NoSnap
    /\ mhist = FreshHist

MGoto(t, place) == [mth EXCEPT ![t].pc = place]

MReturn(t, result) == [mth EXCEPT ![t].pc = "unlock", ![t].res = result]

\* a caller enters a method of the collector and arrives at `with self._lock`
MCall(t, op, hit, d) ==
    /\ mth[t].pc = "idle"
    /\ mhist.calls < MaxCalls
    /\ op = "reset" => /\ Len(objs) < MaxObjs
                       /\ \A u \in Threads : mth[u].op # "reset"
    /\ mth' = [mth EXCEPT ![t] = [MIdle EXCEPT !.pc = "lock", !.op = op,
                                               !.hit = hit, !.d = d]]
    /\ mhist' = [mhist EXCEPT !.calls = @ + 1]
    /\ UNCHANGED <<objs, mref, mlock, snap>>
    /\ UNCHANGED restOfMetrics

MAcquire(t) ==
    /\ mth[t].pc = "lock"
    /\ LockFree(mlock)
    /\ mlock' = t
    /\ mth' = MGoto(t, CASE mth[t].op = "record_request" -> "r26"
                         [] mth[t].op = "record_error" -> "e34"
                         [] mth[t].op = "record_response_time" -> "t38"
                         [] mth[t].op = "get_metrics" -> "m46"
                         [] mth[t].op = "reset" -> "x50")
    /\ UNCHANGED <<objs, mref, snap, mhist>>
    /\ UNCHANGED restOfMetrics

\* record_request, line 26
R26(t) ==
    /\ mth[t].pc = "r26"
    /\ objs' = [objs EXCEPT ![mref] = IncTotal(@)]
    /\ mth' = MGoto(t, "r27")
    /\ UNCHANGED <<mref, mlock, snap, mhist>>
    /\ UNCHANGED restOfMetrics

\* record_request, lines 27-30
R27(t) ==
    /\ mth[t].pc = "r27"
    /\ objs' = [objs EXCEPT ![mref] = IncHitOrMiss(@, mth[t].hit)]
    /\ mth' = MReturn(t, 0)
    /\ UNCHANGED <<mref, mlock, snap, mhist>>
    /\ UNCHANGED restOfMetrics

\* record_error, line 34
E34(t) ==
    /\ mth[t].pc = "e34"
    /\ objs' = [objs EXCEPT ![mref] = RecordError(@)]
    /\ mth' = MReturn(t, 0)
    /\ UNCHANGED <<mref, mlock, snap, mhist>>
    /\ UNCHANGED restOfMetrics

\* record_response_time, line 38: current_avg = self._metrics.avg_response_time
T38(t) ==
    /\ mth[t].pc = "t38"
    /\ mth' = [mth EXCEPT ![t].current_avg = objs[mref].avg_response_time,
                          ![t].pc = "t39"]
    /\ UNCHANGED <<objs, mref, mlock, snap, mhist>>
    /\ UNCHANGED restOfMetrics

\* record_response_time, line 39
T39(t) ==
    /\ mth[t].pc = "t39"
    /\ mth' = [mth EXCEPT ![t].total = RunningTotal(mth[t].current_avg,
                                                    objs[mref].total_requests),
                          ![t].pc = "t40"]
    /\ UNCHANGED <<objs, mref, mlock, snap, mhist>>
    /\ UNCHANGED restOfMetrics

\* record_response_time, lines 40-42; -1 stands for the ZeroDivisionError raised
T40(t) ==
    /\ mth[t].pc = "t40"
    /\ IF objs[mref].total_requests = 0
       THEN objs' = objs /\ mth' = MReturn(t, -1)
       ELSE /\ objs' = [objs EXCEPT ![mref].avg_response_time =
                           NewAverage(mth[t].total, mth[t].d,
                                      objs[mref].total_requests)]
            /\ mth' = MReturn(t, 0)
    /\ UNCHANGED <<mref, mlock, snap, mhist>>
    /\ UNCHANGED restOfMetrics

\* get_metrics, line 46: return self._metrics
M46(t) ==
    /\ mth[t].pc = "m46"
    /\ mth' = MReturn(t, mref)
    /\ UNCHANGED <<objs, mref, mlock, snap, mhist>>
    /\ UNCHANGED restOfMetrics

\* reset, line 50: self._metrics = Metrics()
X50(t) ==
    /\ mth[t].pc = "x50"
    /\ objs' = Append(objs, NewMetrics)
    /\ mref' = Len(objs) + 1
    /\ mth' = MReturn(t, 0)
    /\ UNCHANGED <<mlock, snap, mhist>>
    /\ UNCHANGED restOfMetrics

\* the history after the call c has returned
HistAfter(hs, c) ==
    CASE c.op = "record_request" ->
            [hs EXCEPT !.r = @ + 1, !.h = IF c.hit THEN @ + 1 ELSE @,
                       !.pend = @ + 1]
      [] c.op = "record_error" -> [hs EXCEPT !.e = @ + 1]
      [] c.op = "record_response_time" ->
            [hs EXCEPT !.n = @ + 1, !.sum = @ + c.d, !.pend = 0,
                       !.paired = @ /\ hs.pend = 1]
      [] c.op = "get_metrics" -> hs
      [] c.op = "reset" -> [FreshHist EXCEPT !.calls = hs.calls]

\* the with block is left: the lock is released and the call returns
MRelease(t) ==
    /\ mth[t].pc = "unlock"
    /\ mlock' = NoThread
    /\ mth' = [mth EXCEPT ![t] = MIdle]
    /\ mhist' = HistAfter(mhist, mth[t])
    /\ snap' = IF mth[t].op = "get_metrics"
               THEN [ref |-> mth[t].res, taken |-> objs[mth[t].res]]
               ELSE snap
    /\ UNCHANGED <<objs, mref>>
    /\ UNCHANGED restOfMetrics

MRun(t) ==
    \/ R26(t) \/ R27(t) \/ E34(t) \/ T38(t) \/ T39(t) \/ T40(t)
    \/ M46(t) \/ X50(t) \/ MRelease(t)

MetricsNext ==
    \/ \E t \in Threads, hit \in BOOLEAN : MCall(t, "record_request", hit, 0)
    \/ \E t \in Threads : MCall(t, "record_error", FALSE, 0)
    \/ \E t \in Threads, d \in Durations : MCall(t, "record_response_time", FALSE, d)
    \/ \E t \in Threads : MCall(t, "get_metrics", FALSE, 0)
    \/ \E t \in Threads : MCall(t, "reset", FALSE, 0)
    \/ \E t \in Threads : MAcquire(t)
    \/ \E t \in Threads : MRun(t)

\* C6: counters.  Whenever no call is inside the collector, after r completed
\* record_request calls since the last fresh Metrics(), h of them hits,
\* total_requests = r, cache_hits = h and cache_misses = r - h, so that
\* total_requests = cache_hits + cache_misses; and while the collector keeps
\* its Metrics object (no reset) no counter ever decreases.
C6_Counters ==
    /\ [](mlock = NoThread
            => /\ objs[mref].total_requests = mhist.r
               /\ objs[mref].cache_hits = mhist.h
               /\ objs[mref].cache_misses = mhist.r - mhist.h
               /\ objs[mref].total_requests =
                      objs[mref].cache_hits + objs[mref].cache_misses)
    /\ [][ mref' = mref
             => /\ objs'[mref].total_requests >= objs[mref].total_requests
                /\ objs'[mref].cache_hits >= objs[mref].cache_hits
                /\ objs'[mref].cache_misses >= objs[mref].cache_misses
                /\ objs'[mref].errors >= objs[mref].errors ]_vars

\* hits and misses have both been recorded, by both threads' calls
C6_Witness ==
    /\ mlock = NoThread
    /\ mhist.r >= 3
    /\ mhist.h >= 1
    /\ mhist.r - mhist.h >= 1
    /\ objs[mref].total_requests = mhist.r

\* C7: running mean.  From a fresh Metrics(), when every completed
\* record_response_time was preceded by exactly one record_request since the
\* one before it, avg_response_time is the sum of the n recorded durations
\* divided by n.
C7_RunningMean ==
    (mlock = NoThread /\ mhist.paired /\ mhist.n >= 1)
        => objs[mref].avg_response_time.num * mhist.n
              = mhist.sum * objs[mref].avg_response_time.den

\* two durations were recorded, each after its own request, and their mean is
\* not a whole number
C7_Witness ==
    /\ mlock = NoThread
    /\ mhist.paired
    /\ mhist.n = 2
    /\ objs[mref].avg_response_time = Rat(3, 2)

\* C8: snapshot isolation.  What get_metrics returned keeps the values it had
\* when it was returned, whatever is recorded afterwards.
C8_SnapshotIsolated ==
    snap.ref # 0 => objs[snap.ref] = snap.taken

(***************************************************************************)
(* The request handlers (app/main.py) with the remote cache                *)
(* (app/utils/redis.py) and the scraper (app/utils/scraper.py).  A handler *)
(* is a coroutine: it runs without interruption from one await to the      *)
(* next, and the requests interleave at the awaits.  What the site and the *)
(* remote cache answer is the environment's choice.                        *)
(***************************************************************************)
Reqs == 1..MaxReqs

Kinds == {"album", "similar", "user"}

\* the caller's arguments: (artist, album), or username
ApiArgs == {"x"}

\* redis.py, lines 21-23
ALBUM_TTL == 604800

SIMILAR_TTL == 86400

USER_TTL == 3600

TtlOf(kind) ==
    CASE kind = "album" -> ALBUM_TTL
      [] kind = "similar" -> SIMILAR_TTL
      [] kind = "user" -> USER_TTL

\* f"album:{artist}:{album}", f"similar:{artist}:{album}", f"user:{username}"
CacheKey(kind, arg) == <<kind, arg>>

AllCacheKeys == {CacheKey(kind, arg) : kind \in Kinds, arg \in ApiArgs}

\* a value a handler returns or caches; items is the list of a similar-albums
\* result.  NoValue is Python's None.
NoValue == [type |-> "none", arg |-> None, items |-> <<>>]

AlbumValue(arg) == [type |-> "album", arg |-> arg, items |-> <<>>]

UserValue(arg) == [type |-> "user", arg |-> arg, items |-> <<>>]

SimilarValue(arg, items) == [type |-> "similar", arg |-> arg, items |-> items]

\* what another writer of the same store may have left under a key
ForeignValue == [type |-> "foreign", arg |-> None, items |-> <<>>]

\* the lists of albums get_similar_albums may return
SimilarLists == {<<>>, <<"s1">>}

\* bool(value): None and the empty list are false
Truthy(v) == v # NoValue /\ ~(v.type = "similar" /\ v.items = <<>>)

\* nothing stored under a key
NoEntry == [str |-> <<>>, ttl |-> 0]

\* json.dumps / json.loads of a dict or list of plain values: the text that
\* denotes the value, and the value a text denotes
JsonDumps(v) == <<v>>

JsonLoads(str) == str[1]

\* mutant: what goes wrong inside get_cache reaches the handler
GetCacheNoTry(store, ck, ok) ==
    IF ok THEN (IF store[ck] # NoEntry THEN JsonLoads(store[ck].str) ELSE NoValue)
    ELSE ForeignValue

\* get_cache: the GET answered (ok) or failed; a failure and a null result
\* both give None
GetCache(store, ck, ok) ==
    IF ok /\ store[ck] # NoEntry THEN JsonLoads(store[ck].str) ELSE NoValue

\* mutant: every result is stored under the album key
SetCacheAlbumKey(store, ck, value, expire_seconds, ok) ==
    IF ok THEN [store EXCEPT ![CacheKey("album", ck[2])] =
                   [str |-> JsonDumps(value), ttl |-> expire_seconds]]
    ELSE store

\* set_cache: SET and EXPIRE sent in one pipeline, which arrived (ok) or failed
SetCache(store, ck, value, expire_seconds, ok) ==
    IF ok THEN [store EXCEPT ![ck] = [str |-> JsonDumps(value), ttl |-> expire_seconds]]
    ELSE store

\* Album(**cached_result), [Album(**a) for a in cached_result],
\* UserProfile(**cached_result): raises unless the value has the model's fields
Validates(kind, v) == v.type = kind

\* mutant: every exception, HTTPException too, is counted and turned into 503
CatchAll(exc) == [record_error |-> TRUE, status |-> 503]

\* the handlers' except clauses: an HTTPException is re-raised as it is, any
\* other exception is counted and becomes a 503
Catch(exc) ==
    IF exc \in {"HTTP404", "HTTP503"}
    THEN [record_error |-> FALSE, status |-> IF exc = "HTTP404" THEN 404 ELSE 503]
    ELSE [record_error |-> TRUE, status |-> 503]

\* get_album_url, scrape_album, get_similar_albums: except Exception ->
\* HTTPException(503)
ScraperRaises(exc) == "HTTP503"

\* get_user_profile: except HTTPException: raise; except Exception -> 503
ProfileRaises(exc) == IF exc \in {"HTTP404", "HTTP503"} THEN exc ELSE "HTTP503"

\* a request not yet received; nReq, nHit, nErr, nRt count what its handler
\* added to the collector's counters, nWrites its set_cache calls, nFetch the
\* scraper calls it made
NewReq == [pc |-> "new", kind |-> "none", arg |-> None, status |-> 0,
           value |-> NoValue, failed |-> "none",
           nReq |-> 0, nHit |-> 0, nErr |-> 0, nRt |-> 0, nWrites |-> 0, nFetch |-> 0]

\* how the remote-cache calls of a request went: "none" (not made), "ok", or
\* "failed" (the call raised inside get_cache or set_cache, which printed the
\* error and returned)
NoTrace == [read |-> "none", write |-> "none"]

Went(ok) == IF ok THEN "ok" ELSE "failed"

ApiInit ==
    /\ reqs = [r \in Reqs |-> NewReq]
    /\ redis = [ck \in AllCacheKeys |-> NoEntry]
    /\ trace = [r \in Reqs |-> NoTrace]

\* the exception exc leaves the try block of request r's handler, the
\* collector's Metrics being m by then
Raise(r, m, exc, why) ==
    LET after == IF Catch(exc).record_error THEN RecordError(m) ELSE m IN
    /\ objs' = [objs EXCEPT ![mref] = after]
    /\ reqs' = [reqs EXCEPT ![r].pc = "done",
                            ![r].status = Catch(exc).status,
                            ![r].failed = why,
                            ![r].nReq = @ + (after.total_requests - objs[mref].total_requests),
                            ![r].nHit = @ + (after.cache_hits - objs[mref].cache_hits),
                            ![r].nErr = @ + (after.errors - objs[mref].errors)]

\* a request arrives: start_time, cache_key, await get_cache(cache_key)
ApiCall(r, kind, arg) ==
    /\ reqs[r].pc = "new"
    /\ r > 1 => reqs[r - 1].pc # "new"
    /\ reqs' = [reqs EXCEPT ![r].pc = "get_cache", ![r].kind = kind, ![r].arg = arg]
    /\ UNCHANGED <<objs, redis>>
    /\ UNCHANGED restOfApi

\* mutant: the handler records the request on a hit only
RecordLookupHitOnly(m, hit) == IF hit THEN RecordRequest(m, TRUE) ELSE m

\* metrics.record_request(cache_hit=True) in the branch of the hit,
\* metrics.record_request(cache_hit=False) after it
RecordLookup(m, hit) == RecordRequest(m, hit)

\* get_cache returns; on a hit the handler records it and returns the cached
\* value, on a miss it records the miss and awaits the scraper
AfterGetCache(r, ok) ==
    LET q == reqs[r]
        cached == GetCache(redis, CacheKey(q.kind, q.arg), ok)
        after == RecordLookup(objs[mref], Truthy(cached))
        nReq == after.total_requests - objs[mref].total_requests
        nHit == after.cache_hits - objs[mref].cache_hits
    IN  /\ q.pc = "get_cache"
        /\ IF Truthy(cached)
           THEN IF Validates(q.kind, cached)
                THEN /\ objs' = [objs EXCEPT ![mref] = after]
                     /\ reqs' = [reqs EXCEPT ![r].pc = "done", ![r].status = 200,
                                             ![r].value = cached,
                                             ![r].nReq = @ + nReq, ![r].nHit = @ + nHit]
                ELSE Raise(r, after, "Error", "cached")
           ELSE /\ objs' = [objs EXCEPT ![mref] = after]
                /\ reqs' = [reqs EXCEPT ![r].nReq = @ + nReq, ![r].nFetch = @ + 1,
                                        ![r].pc = IF q.kind = "user" THEN "profile"
                                                  ELSE "search"]
        /\ UNCHANGED redis

GetCacheReturns(r, ok) ==
    /\ AfterGetCache(r, ok)
    /\ UNCHANGED restOfApi

\* get_album_url returns: the search page could not be fetched or parsed
\* ("raise"), it has no result block with a link ("no_block"), or the first
\* block gave the album's url ("found")
SearchReturns(r, outcome) ==
    LET q == reqs[r] IN
    /\ q.pc = "search"
    /\ CASE outcome = "raise" ->
                Raise(r, objs[mref], ScraperRaises("Error"), "search")
         [] outcome = "no_block" ->
                Raise(r, objs[mref], "HTTP404", "not_found")
         [] outcome = "found" ->
                /\ reqs' = [reqs EXCEPT ![r].pc = IF q.kind = "album" THEN "scrape"
                                                  ELSE "similar",
                                        ![r].nFetch = @ + 1]
                /\ objs' = objs
    /\ UNCHANGED redis
    /\ UNCHANGED restOfApi

\* scrape_album returns to get_album: the page fetch or an extractor raised,
\* or the Album was assembled; then await set_cache
ScrapeReturns(r, outcome) ==
    LET q == reqs[r] IN
    /\ q.pc = "scrape"
    /\ CASE outcome \in {"fetch_raise", "extract_raise"} ->
                Raise(r, objs[mref], ScraperRaises("Error"), outcome)
         [] outcome = "ok" ->
                /\ reqs' = [reqs EXCEPT ![r].pc = "set_cache",
                                        ![r].value = AlbumValue(q.arg)]
                /\ objs' = objs
    /\ UNCHANGED redis
    /\ UNCHANGED restOfApi

\* get_similar_albums returns to the handler: the listing fetch raised, or the
\* albums of the blocks that could be scraped are returned (maybe none)
SimilarReturns(r, raised, items) ==
    LET q == reqs[r] IN
    /\ q.pc = "similar"
    /\ IF raised
       THEN Raise(r, objs[mref], ScraperRaises("Error"), "fetch_raise")
       ELSE /\ reqs' = [reqs EXCEPT ![r].pc = "set_cache",
                                    ![r].value = SimilarValue(q.arg, items)]
            /\ objs' = objs
    /\ UNCHANGED redis
    /\ UNCHANGED restOfApi

\* get_user_profile returns: the fetch raised, the page has no
\* .profileHeadLeft (HTTPException 404), an extractor raised, or the
\* UserProfile was assembled
ProfileReturns(r, outcome) ==
    LET q == reqs[r] IN
    /\ q.pc = "profile"
    /\ CASE outcome \in {"fetch_raise", "extract_raise"} ->
                Raise(r, objs[mref], ProfileRaises("Error"), outcome)
         [] outcome = "no_header" ->
                Raise(r, objs[mref], ProfileRaises("HTTP404"), "not_found")
         [] outcome = "ok" ->
                /\ reqs' = [reqs EXCEPT ![r].pc = "set_cache",
                                        ![r].value = UserValue(q.arg)]
                /\ objs' = objs
    /\ UNCHANGED redis
    /\ UNCHANGED restOfApi

\* set_cache returns (it swallows its own failures); the handler records the
\* response time and returns the result.  record_response_time divides by
\* total_requests: were it 0, the ZeroDivisionError would leave the try block
AfterSetCache(r, ok, duration) ==
    LET q == reqs[r] IN
    /\ q.pc = "set_cache"
    /\ redis' = SetCache(redis, CacheKey(q.kind, q.arg), q.value, TtlOf(q.kind), ok)
    /\ IF objs[mref].total_requests = 0
       THEN Raise(r, objs[mref], "Error", "zero_division")
       ELSE /\ objs' = [objs EXCEPT ![mref] = RecordResponseTime(@, duration)]
            /\ reqs' = [reqs EXCEPT ![r].pc = "done", ![r].status = 200,
                                    ![r].nRt = @ + 1,
                                    ![r].nWrites = @ + 1]

SetCacheReturns(r, ok, duration) ==
    /\ AfterSetCache(r, ok, duration)
    /\ UNCHANGED restOfApi

\* the store drops a key whose EXPIRE time has passed
RedisExpire(ck) ==
    /\ redis[ck] # NoEntry
    /\ redis' = [redis EXCEPT ![ck] = NoEntry]
    /\ UNCHANGED <<objs, reqs>>
    /\ UNCHANGED restOfApi

\* another writer of the store leaves a value that is not this API's model
RedisForeignWrite(ck) ==
    /\ redis[ck] = NoEntry
    /\ redis' = [redis EXCEPT ![ck] = [str |-> JsonDumps(ForeignValue), ttl |-> 0]]
    /\ UNCHANGED <<objs, reqs>>
    /\ UNCHANGED restOfApi

ApiNext ==
    \/ \E r \in Reqs, kind \in Kinds, arg \in ApiArgs : ApiCall(r, kind, arg)
    \/ \E r \in Reqs, ok \in BOOLEAN : GetCacheReturns(r, ok)
    \/ \E r \in Reqs, outcome \in {"raise", "no_block", "found"} : SearchReturns(r, outcome)
    \/ \E r \in Reqs, outcome \in {"fetch_raise", "extract_raise", "ok"} :
            ScrapeReturns(r, outcome)
    \/ \E r \in Reqs, items \in SimilarLists : SimilarReturns(r, FALSE, items)
    \/ \E r \in Reqs : SimilarReturns(r, TRUE, <<>>)
    \/ \E r \in Reqs, outcome \in {"fetch_raise", "no_header", "extract_raise", "ok"} :
            ProfileReturns(r, outcome)
    \/ \E r \in Reqs, ok \in BOOLEAN, duration \in Durations : SetCacheReturns(r, ok, duration)
    \/ \E ck \in AllCacheKeys : RedisExpire(ck)
    \/ \E ck \in AllCacheKeys : RedisForeignWrite(ck)

(***************************************************************************)
(* The same handlers, with the outcome of each remote-cache call kept in   *)
(* trace: get_cache and set_cache catch what goes wrong inside them, so    *)
(* the handler cannot tell a failed call from one that went through.       *)
(***************************************************************************)
\* what took place inside get_cache: the GET was answered with a body that
\* parsed ("ok"), or the request raised, raise_for_status raised on a non-2xx
\* answer, or response.json() / json.loads raised on the body
CacheAnswers == {"ok", "transport_error", "bad_status", "bad_json"}

TracedGetCacheReturns(r, answer) ==
    /\ AfterGetCache(r, answer = "ok")
    /\ trace' = [trace EXCEPT ![r].read = Went(answer = "ok")]
    /\ UNCHANGED restOfHandlers

TracedSetCacheReturns(r, ok, duration) ==
    /\ AfterSetCache(r, ok, duration)
    /\ trace' = [trace EXCEPT ![r].write = Went(ok)]
    /\ UNCHANGED restOfHandlers

BackendNext ==
    \/ \E r \in Reqs, kind \in Kinds, arg \in ApiArgs : ApiCall(r, kind, arg)
    \/ \E r \in Reqs, answer \in CacheAnswers : TracedGetCacheReturns(r, answer)
    \/ \E r \in Reqs, outcome \in {"raise", "no_block", "found"} : SearchReturns(r, outcome)
    \/ \E r \in Reqs, outcome \in {"fetch_raise", "extract_raise", "ok"} :
            ScrapeReturns(r, outcome)
    \/ \E r \in Reqs, items \in SimilarLists : SimilarReturns(r, FALSE, items)
    \/ \E r \in Reqs : SimilarReturns(r, TRUE, <<>>)
    \/ \E r \in Reqs, outcome \in {"fetch_raise", "no_header", "extract_raise", "ok"} :
            ProfileReturns(r, outcome)
    \/ \E r \in Reqs, ok \in BOOLEAN, duration \in Durations :
            TracedSetCacheReturns(r, ok, duration)
    \/ \E ck \in AllCacheKeys : RedisExpire(ck)
    \/ \E ck \in AllCacheKeys : RedisForeignWrite(ck)

(***************************************************************************)
(* Properties of the handlers' error handling.                             *)
(***************************************************************************)
\* the ways an acquisition fails: the search or a page fetch raises, or an
\* extractor raises
AcquisitionFailures == {"search", "fetch_raise", "extract_raise"}

Finished(r) == reqs[r].pc = "done"

\* C9: every request that fails at acquisition level (the search or a page
\* fetch raises, or an extractor raises) has incremented the errors counter
\* exactly once, and a request that succeeded has left it unchanged.
C9_AcquisitionFailureCounted ==
    \A r \in Reqs :
        Finished(r) =>
            /\ reqs[r].failed \in AcquisitionFailures => reqs[r].nErr = 1
            /\ reqs[r].status = 200 => reqs[r].nErr = 0

\* C10: a request that ends in not-found (no .profileHeadLeft on the profile
\* page, no result block for the search) answers 404, has incremented
\* total_requests exactly once, leaves the errors counter as it was, and
\* writes nothing to the remote cache.
C10_NotFoundIsNoError ==
    [][\A r \in Reqs :
          (~Finished(r) /\ reqs'[r].pc = "done" /\ reqs'[r].failed = "not_found") =>
              /\ reqs'[r].status = 404
              /\ reqs'[r].nReq = 1
              /\ reqs'[r].nErr = 0
              /\ objs'[mref].errors = objs[mref].errors
              /\ objs'[mref].total_requests = objs[mref].total_requests
              /\ reqs'[r].nWrites = 0
              /\ redis' = redis]_vars

\* both kinds of not-found have happened: a profile page without its header,
\* and a search without a result block
C10_Witness ==
    \E r1, r2 \in Reqs :
        /\ Finished(r1) /\ reqs[r1].kind = "user" /\ reqs[r1].failed = "not_found"
        /\ Finished(r2) /\ reqs[r2].kind \in {"album", "similar"}
        /\ reqs[r2].failed = "not_found"
        /\ objs[mref].total_requests = 2 /\ objs[mref].errors = 0

\* the cache key of request r
KeyOf(r) == CacheKey(reqs[r].kind, reqs[r].arg)

\* C14: the cache-aside flow.  No search or page fetch is issued for a request
\* before its cache lookup has returned, nor after a hit; a hit returns the
\* cached value; the handlers store only the result of a successful
\* acquisition, under the request's own key, in the step before they return
\* it; a request that failed or found nothing has stored nothing.
C14_CacheAside ==
    [][\A r \in Reqs :
          /\ reqs'[r].nFetch > reqs[r].nFetch =>
                reqs[r].pc \notin {"new", "done"} /\ reqs'[r].nHit = 0
          /\ (reqs[r].pc = "get_cache" /\ reqs'[r].nHit = 1 /\ reqs'[r].status = 200) =>
                /\ reqs'[r].pc = "done"
                /\ reqs'[r].value = JsonLoads(redis[KeyOf(r)].str)
                /\ reqs'[r].nFetch = 0
                /\ redis' = redis
          /\ reqs'[r].nWrites > reqs[r].nWrites =>
                /\ reqs[r].pc = "set_cache" /\ reqs[r].nHit = 0
                /\ reqs[r].value.type = reqs[r].kind
                /\ \A ck \in AllCacheKeys \ {KeyOf(r)} : redis'[ck] = redis[ck]
                /\ redis'[KeyOf(r)] \in
                      {redis[KeyOf(r)],
                       [str |-> JsonDumps(reqs[r].value), ttl |-> TtlOf(reqs[r].kind)]}
                /\ reqs'[r].pc = "done" /\ reqs'[r].status = 200
                /\ reqs'[r].value = reqs[r].value
          /\ (reqs'[r].pc = "done" /\ reqs'[r].status # 200) =>
                reqs'[r].nWrites = 0 /\ (reqs[r].pc # "done" => redis' = redis)
          /\ (reqs'[r].pc = "done" /\ reqs'[r].status = 200 /\ reqs'[r].nHit = 0) =>
                reqs'[r].nWrites = 1]_vars

\* one request missed, acquired and stored its result; a later request for
\* the same key was answered from the cache
C14_Witness ==
    \E r1, r2 \in Reqs :
        /\ reqs[r1].pc = "done" /\ reqs[r1].status = 200
        /\ reqs[r1].nHit = 0 /\ reqs[r1].nWrites = 1 /\ reqs[r1].nFetch > 0
        /\ reqs[r2].pc = "done" /\ reqs[r2].status = 200
        /\ reqs[r2].nHit = 1 /\ reqs[r2].nFetch = 0
        /\ KeyOf(r1) = KeyOf(r2)
        /\ reqs[r2].value = reqs[r1].value
        /\ JsonLoads(redis[KeyOf(r1)].str) = reqs[r1].value

\* C20: the order of the metrics calls in the handlers.  Every request that
\* ends has called record_request exactly once, with cache_hit=True exactly
\* when the lookup gave a value; record_response_time is called at most once
\* per request and only after that request's record_request, so it never
\* divides by a total_requests of 0.
C20_RequestBeforeResponseTime ==
    [][\A r \in Reqs :
          /\ reqs'[r].nReq <= 1 /\ reqs'[r].nRt <= 1
          /\ reqs'[r].pc = "done" => reqs'[r].nReq = 1
          /\ reqs'[r].nReq > reqs[r].nReq =>
                /\ reqs[r].pc = "get_cache"
                /\ reqs'[r].nHit = 1 =>
                      /\ Truthy(GetCache(redis, KeyOf(r), TRUE))
                      /\ objs'[mref].cache_hits = objs[mref].cache_hits + 1
                /\ reqs'[r].nHit = 0 =>
                      /\ objs'[mref].cache_misses = objs[mref].cache_misses + 1
                      /\ reqs'[r].pc \in {"search", "profile"}
          /\ reqs'[r].nRt > reqs[r].nRt =>
                /\ reqs[r].nReq = 1
                /\ objs[mref].total_requests >= 1
                /\ reqs'[r].status = 200
          /\ reqs'[r].failed # "zero_division"]_vars

\* a request that missed has recorded its request and then its response
\* time; another was a hit and recorded its request only
C20_Witness ==
    \E r1, r2 \in Reqs :
        /\ reqs[r1].pc = "done" /\ reqs[r1].nReq = 1 /\ reqs[r1].nRt = 1
        /\ reqs[r2].pc = "done" /\ reqs[r2].nReq = 1 /\ reqs[r2].nRt = 0
        /\ reqs[r2].nHit = 1
        /\ objs[mref].total_requests = 2
        /\ objs[mref].cache_hits = 1 /\ objs[mref].cache_misses = 1
        /\ objs[mref].avg_response_time # Rat(0, 1)

\* C23: failures of the remote cache never fail a request.  When get_cache
\* fails inside (transport error, non-2xx answer, body that is not JSON) the
\* handler does what it does on a miss, whatever is stored: it records a
\* miss and goes on to the acquisition; when set_cache fails inside, the
\* handler still returns the acquired result with 200; neither step touches
\* the errors counter or the store, and a request whose cache call failed
\* never ends with an error counted.
C23_BackendFailureTolerated ==
    [][\A r \in Reqs :
          /\ (reqs[r].pc = "get_cache" /\ trace'[r].read = "failed") =>
                /\ reqs'[r] = [reqs[r] EXCEPT
                                  !.pc = IF reqs[r].kind = "user" THEN "profile"
                                         ELSE "search",
                                  !.nReq = 1, !.nFetch = 1]
                /\ objs'[mref] = RecordRequest(objs[mref], FALSE)
                /\ objs'[mref].errors = objs[mref].errors
                /\ redis' = redis
          /\ (reqs[r].pc = "set_cache" /\ trace'[r].write = "failed") =>
                /\ reqs'[r].pc = "done" /\ reqs'[r].status = 200
                /\ reqs'[r].value = reqs[r].value
                /\ reqs'[r].value.type = reqs[r].kind
                /\ reqs'[r].failed = "none"
                /\ objs'[mref].errors = objs[mref].errors
                /\ redis' = redis
          /\ "failed" \in {trace'[r].read, trace'[r].write} => reqs'[r].nErr = 0
      ]_vars

\* a request whose lookup failed while a result of an earlier request was
\* stored under its key acquired the result again, failed to store it, and
\* returned it with 200; no error was counted
C23_Witness ==
    \E r1, r2 \in Reqs :
        /\ r1 # r2 /\ KeyOf(r1) = KeyOf(r2)
        /\ Finished(r1) /\ reqs[r1].status = 200 /\ trace[r1].write = "ok"
        /\ redis[KeyOf(r1)] =
              [str |-> JsonDumps(reqs[r1].value), ttl |-> TtlOf(reqs[r1].kind)]
        /\ Truthy(reqs[r1].value)
        /\ Finished(r2) /\ reqs[r2].status = 200
        /\ trace[r2] = [read |-> "failed", write |-> "failed"]
        /\ reqs[r2].nHit = 0 /\ reqs[r2].nFetch > 0 /\ reqs[r2].nErr = 0
        /\ objs[mref].errors = 0

\* request r1 has returned a result with 200 after storing it, and the
\* entry it stored is still under the key (its TTL has not elapsed)
StoredBy(r1) ==
    /\ Finished(r1) /\ reqs[r1].status = 200
    /\ trace[r1].write = "ok"
    /\ redis[KeyOf(r1)] =
          [str |-> JsonDumps(reqs[r1].value), ttl |-> TtlOf(reqs[r1].kind)]

\* C24: a result that was acquired and stored is served from the cache.
\* When the lookup of a request goes through and finds the entry an earlier
\* request with the same key stored, the request is recorded as a cache hit
\* and returns that result with 200 without any fetch, also when the result
\* is an empty list of similar albums.
C24_ServedFromCache ==
    [][\A r1, r2 \in Reqs :
          (/\ r1 # r2 /\ KeyOf(r1) = KeyOf(r2)
           /\ StoredBy(r1)
           /\ reqs[r2].pc = "get_cache" /\ trace'[r2].read = "ok")
              => /\ reqs'[r2].pc = "done" /\ reqs'[r2].status = 200
                 /\ reqs'[r2].nHit = 1 /\ reqs'[r2].nFetch = 0
                 /\ reqs'[r2].value = reqs[r1].value
                 /\ objs'[mref].cache_hits = objs[mref].cache_hits + 1
      ]_vars

(***************************************************************************)
(* The scraper's extractors (app/utils/scraper.py) as functions of the     *)
(* markup.  A region of a page is the sequence of its rows or blocks; a    *)
(* row is the texts of the elements the extractor selects in it, None for  *)
(* an element the row lacks.  An extractor gives [exc, val]: the exception *)
(* it raises ("none" when it returns) and the value it returns.            *)
(***************************************************************************)
\* the texts int() accepts, with their values
IntTexts == {"0", "1", "2", "5", "85", "1234"}

IntOf(text) ==
    CASE text = "0" -> 0
      [] text = "1" -> 1
      [] text = "2" -> 2
      [] text = "5" -> 5
      [] text = "85" -> 85
      [] text = "1234" -> 1234

\* str.replace(",", "")
StripCommas(text) == IF text = "1,234" THEN "1234" ELSE text

\* Optional[int]: None, or a value
NoneOpt == <<>>

Opt(v) == <<v>>

Returned(v) == [exc |-> "none", val |-> v]

Raised(e) == [exc |-> e, val |-> <<>>]

\* parse_number, on a text
ParseNumber(text) ==
    IF StripCommas(text) \in IntTexts THEN Returned(IntOf(StripCommas(text)))
    ELSE Raised("ValueError")

\* the least index of a non-empty set of indices
FirstOf(S) == CHOOSE i \in S : \A j \in S : i <= j

\* a for loop that appends one item per row and has no try inside: the first
\* row that raises ends the loop with its exception
ForEach(rows, Item(_)) ==
    LET bad == {i \in 1..Len(rows) : Item(rows[i]).exc # "none"} IN
    IF bad = {} THEN Returned([i \in 1..Len(rows) |-> Item(rows[i]).val])
    ELSE Raised(Item(rows[FirstOf(bad)]).exc)

RECURSIVE KeepReturned(_)
\* a for loop whose body is in try / except: continue, given what the body
\* does on each row -- the rows that raise are left out, the others appended
\* in order
KeepReturned(results) ==
    IF results = <<>> THEN <<>>
    ELSE (IF Head(results).exc = "none" THEN <<Head(results).val>> ELSE <<>>)
         \o KeepReturned(Tail(results))

\* one iteration of parse_tracks
ParseTrackRow(row) ==
    IF row.number = None THEN Raised("AttributeError")
    ELSE IF row.number \notin IntTexts THEN Raised("ValueError")
    ELSE IF row.title = None THEN Raised("AttributeError")
    ELSE IF row.rating # None /\ row.rating \notin IntTexts THEN Raised("ValueError")
    ELSE Returned([number |-> IntOf(row.number),
                   title |-> row.title,
                   length |-> IF row.length = None THEN "" ELSE row.length,
                   rating |-> IF row.rating = None THEN NoneOpt
                              ELSE Opt(IntOf(row.rating))])

\* mutant: parse_tracks with the loop body in try / except: continue
ParseTracksSkipping(rows) ==
    Returned(KeepReturned([i \in 1..Len(rows) |-> ParseTrackRow(rows[i])]))

ParseTracks(rows) == ForEach(rows, ParseTrackRow)

\* one iteration of parse_critic_reviews
ParseCriticBlock(block) ==
    IF block.publication = None THEN Raised("AttributeError")
    ELSE IF block.rating = None THEN Raised("AttributeError")
    ELSE IF block.text = None THEN Raised("AttributeError")
    ELSE Returned([author |-> IF block.author = None THEN "Unknown" ELSE block.author,
                   publication |-> block.publication,
                   rating |-> IF block.rating \in IntTexts THEN IntOf(block.rating) ELSE 0,
                   text |-> block.text])

ParseCriticReviews(blocks) == ForEach(blocks, ParseCriticBlock)

\* the try body of one iteration of parse_user_reviews
ParseUserBlock(block) ==
    IF block.author = None THEN Raised("AttributeError")
    ELSE IF block.rating \notin {None, "NR"} /\ block.rating \notin IntTexts
         THEN Raised("ValueError")
    ELSE IF block.text = None THEN Raised("AttributeError")
    ELSE IF block.likes # None /\ block.likes \notin IntTexts THEN Raised("ValueError")
    ELSE Returned([author |-> block.author,
                   rating |-> IF block.rating \in {None, "NR"} THEN NoneOpt
                              ELSE Opt(IntOf(block.rating)),
                   text |-> block.text,
                   likes |-> IF block.likes = None THEN 0 ELSE IntOf(block.likes)])

ParseUserReviews(blocks) ==
    Returned(KeepReturned([i \in 1..Len(blocks) |-> ParseUserBlock(blocks[i])]))

\* parse_buy_links: the links of .buyButtons that have a title and an href
ParseBuyLinks(buy) ==
    Returned(IF buy.present
             THEN SelectSeq(buy.links, LAMBDA l : l.platform # "" /\ l.url # "")
             ELSE <<>>)

\* scrape_album's four subtasks, in the order they are passed to gather
TaskNames == <<"tracks", "critic_reviews", "popular_reviews", "buy_links">>

TaskSet == {TaskNames[i] : i \in 1..Len(TaskNames)}

\* what the subtask named name computes from the page
Extract(name, page) ==
    CASE name = "tracks" -> ParseTracks(page.tracks)
      [] name = "critic_reviews" -> ParseCriticReviews(page.critics)
      [] name = "popular_reviews" -> ParseUserReviews(page.users)
      [] name = "buy_links" -> ParseBuyLinks(page.buy)

\* user_score: float of the title attribute of .albumUserScore a, None when
\* the element is absent or the text is no number
UserScore(page) == IF page.score \in IntTexts THEN Opt(IntOf(page.score)) ELSE NoneOpt

\* num_ratings: int of .numReviews strong, 0 when absent or no number
NumRatings(page) == IF page.nratings \in IntTexts THEN IntOf(page.nratings) ELSE 0

\* Album(title=..., ..., buy_links=...), from the four values gather returned
AssembleAlbum(title, artist, page, gathered) ==
    [title |-> title,
     artist |-> artist,
     user_score |-> UserScore(page),
     num_ratings |-> NumRatings(page),
     tracks |-> gathered[1],
     critic_reviews |-> gathered[2],
     popular_reviews |-> gathered[3],
     is_must_hear |-> page.must_hear,
     buy_links |-> gathered[4]]

\* no Album
NoAlbum == [title |-> None]

\* scrape_album as one step, for a caller that awaits it: the fetch raised,
\* a subtask raised, or the Album is returned
ScrapeAlbum(resp, artist, title) ==
    IF resp.raised THEN [exc |-> "HTTP503", val |-> NoAlbum]
    ELSE IF \E n \in TaskSet : Extract(n, resp.page).exc # "none"
         THEN [exc |-> "HTTP503", val |-> NoAlbum]
    ELSE [exc |-> "none",
          val |-> AssembleAlbum(title, artist, resp.page,
                                [i \in 1..4 |-> Extract(TaskNames[i], resp.page).val])]

(***************************************************************************)
(* The pages the site may serve.                                           *)
(***************************************************************************)
Track1 == [number |-> "1", title |-> "t1", length |-> "3:05", rating |-> "85"]

\* a row without .trackNumber
TrackNoNumber == [number |-> None, title |-> "t2", length |-> None, rating |-> None]

Critic1 == [author |-> "a1", publication |-> "p1", rating |-> "85", text |-> "c1"]

\* a review whose rating is rendered as a placeholder, and without an author
CriticPlaceholder == [author |-> None, publication |-> "p2", rating |-> "NR", text |-> "c2"]

\* a review without .publication a
CriticNoPublication == [author |-> "a3", publication |-> None, rating |-> "5", text |-> "c3"]

User1 == [author |-> "u1", rating |-> "NR", text |-> "r1", likes |-> "2"]

\* a review without .userReviewName a
UserNoAuthor == [author |-> None, rating |-> "5", text |-> "r2", likes |-> None]

\* the sequences over S of length at most n
SeqsUpTo(S, n) == UNION {[1..k -> S] : k \in 0..n}

TrackLists == SeqsUpTo({Track1, TrackNoNumber}, MaxItems)

CriticLists == SeqsUpTo({Critic1, CriticPlaceholder, CriticNoPublication}, MaxItems)

UserLists == SeqsUpTo({User1, UserNoAuthor}, MaxItems)

BuyButtons == [present |-> TRUE,
               links |-> <<[platform |-> "shop", url |-> "http://shop/1"],
                           [platform |-> "", url |-> "http://x"]>>]

AlbumPage(t, c, u) ==
    [score |-> "85", nratings |-> "1,234", tracks |-> t, critics |-> c, users |-> u,
     buy |-> BuyButtons, must_hear |-> TRUE]

AlbumPages == {AlbumPage(t, c, u) : t \in TrackLists, c \in CriticLists, u \in UserLists}

\* the body of an error response: none of the regions
ErrorPage ==
    [score |-> None, nratings |-> None, tracks |-> <<>>, critics |-> <<>>, users |-> <<>>,
     buy |-> [present |-> FALSE, links |-> <<>>], must_hear |-> FALSE]

\* scraper.get(url, headers=HEADERS).text: the call raises (a transport
\* error), or gives the body of the response, whatever its status
NoResponse == [raised |-> TRUE, status |-> 0, page |-> ErrorPage]

Response(status, page) == [raised |-> FALSE, status |-> status, page |-> page]

AlbumResponses ==
    {NoResponse, Response(500, ErrorPage)} \cup {Response(200, pg) : pg \in AlbumPages}

\* the album pages a block of a similar-albums listing may lead to
BlockResponses ==
    {NoResponse,
     Response(200, AlbumPage(<<Track1>>, <<Critic1>>, <<User1>>)),
     Response(200, AlbumPage(<<TrackNoNumber>>, <<>>, <<>>))}

\* an .albumBlock of a listing: whether it has .image a and .artistTitle; its
\* .albumTitle is its position on the page
BlockKinds == {"good", "no_link", "no_artist"}

Block(i, kind) ==
    [link |-> kind # "no_link",
     artist |-> IF kind = "no_artist" THEN None ELSE "artist",
     title |-> i]

Listings ==
    UNION {{[i \in 1..n |-> Block(i, ks[i])] : ks \in [1..n -> BlockKinds]} : n \in 0..MaxBlocks}

ListingResponses == {NoResponse} \cup {Response(200, l) : l \in Listings}

\* the body of one iteration of get_similar_albums' loop, the album page
\* answering resp: nothing to do for a block without a link, else the album
\* scrape_album returns, or the exception raised on the way
ScrapeBlock(block, resp) ==
    IF ~block.link THEN [exc |-> "no_link", val |-> NoAlbum]
    ELSE IF block.artist = None THEN [exc |-> "AttributeError", val |-> NoAlbum]
    ELSE ScrapeAlbum(resp, block.artist, block.title)

\* mutant: the first block that fails ends the loop
NextBlockOrBreak(i, n, failed) == IF failed THEN n + 1 ELSE i + 1

\* mutant: a block that failed is tried again
NextBlockRetry(i, n, failed) == IF failed THEN i ELSE i + 1

\* for album_block in ...: the loop goes on to the next block, whether the
\* body ended normally or in except Exception: continue
NextBlock(i, n, failed) == i + 1

StatKeys == <<"ratings", "reviews", "lists", "followers">>

\* a dict with no key
EmptyStats == <<>>

\* extract_stats, containers being the .profileStatContainer elements: for each
\* the text of its .profileStat, None when it has none
ExtractStats(containers) ==
    IF Len(containers) >= 4
    THEN LET one(text) == IF text = None THEN Returned(0) ELSE ParseNumber(text)
             r == ForEach(SubSeq(containers, 1, 4), one)
         IN  IF r.exc # "none" THEN r
             ELSE Returned([k \in {StatKeys[i] : i \in 1..4} |->
                               r.val[CHOOSE i \in 1..4 : StatKeys[i] = k]])
    ELSE Returned(EmptyStats)

\* extract_rating_distribution: rows with both .distLabel and .distCount
ExtractRatingDistribution(rows) ==
    LET full == SelectSeq(rows, LAMBDA r : r.label # None /\ r.count # None)
        one(r) == ParseNumber(r.count)
        counts == ForEach(full, one)
    IN  IF counts.exc # "none" THEN counts
        ELSE Returned([l \in {full[i].label : i \in 1..Len(full)} |->
                          counts.val[CHOOSE i \in 1..Len(full) :
                                        /\ full[i].label = l
                                        /\ \A j \in (i + 1)..Len(full) : full[j].label # l]])

NoProfile == [username |-> None]

\* get_user_profile, the profile page answering resp
GetUserProfile(resp, username) ==
    IF resp.raised THEN [exc |-> ProfileRaises("Error"), val |-> NoProfile]
    ELSE IF ~resp.page.header THEN [exc |-> ProfileRaises("HTTP404"), val |-> NoProfile]
    ELSE IF ExtractRatingDistribution(resp.page.dist).exc # "none"
         THEN [exc |-> ProfileRaises("Error"), val |-> NoProfile]
    ELSE IF ExtractStats(resp.page.stats).exc # "none"
         THEN [exc |-> ProfileRaises("Error"), val |-> NoProfile]
    ELSE [exc |-> "none",
          val |-> [username |-> username,
                   stats |-> ExtractStats(resp.page.stats).val,
                   rating_distribution |-> ExtractRatingDistribution(resp.page.dist).val]]

StatTexts == {None, "5", "1,234", "many"}

DistRows == {[label |-> "90-100", count |-> "2"], [label |-> "80-89", count |-> None]}

ProfilePages ==
    {[header |-> h, stats |-> st, dist |-> d] :
        h \in BOOLEAN, st \in SeqsUpTo(StatTexts, MaxStats), d \in SeqsUpTo(DistRows, 1)}

ProfileResponses == {NoResponse} \cup {Response(200, pg) : pg \in ProfilePages}

(***************************************************************************)
(* One request on a cold cache, followed through the scraper: get_album    *)
(* with scrape_album's subtasks, get_similar_albums_endpoint with the loop *)
(* over the listing's blocks, get_user with get_user_profile.              *)
(***************************************************************************)
\* the caller's arguments of the request followed
AcqArg == "x"

NoAcq ==
    [kind |-> "none", pc |-> "idle", status |-> 0,
     resp |-> NoResponse,       \* what the page fetch gave
     album |-> NoAlbum,         \* the Album scrape_album assembled
     listing |-> <<>>,          \* soup.select(".albumBlock") of the listing
     i |-> 0,                   \* the loop's position in the listing
     similar |-> <<>>,          \* similar_albums
     profile |-> NoProfile,     \* the UserProfile get_user_profile returned
     phases |-> <<>>,           \* history: the phases passed, in order
     fetches |-> 0,             \* history: fetches of the album page
     blockres |-> <<>>]         \* history: what each processed block gave

NoTask == [st |-> "none", res |-> Returned(<<>>)]

AcqInit ==
    /\ acq = NoAcq
    /\ tasks = [t \in TaskSet |-> NoTask]
    /\ finished = <<>>

\* mutant: a subtask that raised counts as completed, with nothing extracted
TaskOutcomeLenient(res) == "done"

\* how a subtask ends: with its function's value, or with its exception
TaskOutcome(res) == IF res.exc = "none" THEN "done" ELSE "raised"

\* mutant: the join resumes as soon as one subtask has completed
AnyDone(tk) == \E t \in TaskSet : tk[t].st = "done"

\* await asyncio.gather(...) resumes with the results once every subtask has
\* completed
AllDone(tk) == \A t \in TaskSet : tk[t].st = "done"

\* and with the exception as soon as one has raised
AnyRaised(tk) == \E t \in TaskSet : tk[t].st = "raised"

\* mutant: the results in the order the subtasks completed
GatheredAsCompleted(tk, order) ==
    [i \in 1..4 |-> IF i <= Len(order) THEN tk[order[i]].res.val ELSE <<>>]

\* gather's results are in the order of its arguments
Gathered(tk, order) == [i \in 1..4 |-> tk[TaskNames[i]].res.val]

\* the exception exc leaves the handler's try block, the request being at a
AcqRaiseFrom(a, exc) ==
    /\ objs' = [objs EXCEPT ![mref] = IF Catch(exc).record_error
                                      THEN RecordError(@) ELSE @]
    /\ acq' = [a EXCEPT !.pc = "done", !.status = Catch(exc).status]

AcqRaise(exc) == AcqRaiseFrom(acq, exc)

\* the request arrives, get_cache finds nothing, the miss is recorded and the
\* handler awaits the scraper
AcqCall(kind, ok) ==
    /\ acq.pc = "idle"
    /\ ~Truthy(GetCache(redis, CacheKey(kind, AcqArg), ok))
    /\ objs' = [objs EXCEPT ![mref] = RecordLookup(@, FALSE)]
    /\ acq' = [acq EXCEPT !.kind = kind,
                          !.pc = IF kind = "user" THEN "profile" ELSE "search"]
    /\ UNCHANGED <<redis, tasks, finished>>
    /\ UNCHANGED restOfAcq

\* get_album_url returns
AcqSearchReturns(outcome) ==
    /\ acq.pc = "search"
    /\ CASE outcome = "raise" -> AcqRaise(ScraperRaises("Error"))
         [] outcome = "no_block" -> AcqRaise("HTTP404")
         [] outcome = "found" ->
                /\ acq' = [acq EXCEPT !.pc = IF acq.kind = "album" THEN "fetch" ELSE "listing",
                                      !.phases = Append(@, "resolve")]
                /\ objs' = objs
    /\ UNCHANGED <<redis, tasks, finished>>
    /\ UNCHANGED restOfAcq

\* scrape_album: the fetch of the album page returns; the page is parsed, the
\* four subtasks are created and gather is awaited
AcqFetchReturns(resp) ==
    /\ acq.pc = "fetch"
    /\ IF resp.raised
       THEN /\ AcqRaiseFrom([acq EXCEPT !.resp = resp, !.fetches = @ + 1],
                            ScraperRaises("Error"))
            /\ tasks' = tasks
       ELSE /\ acq' = [acq EXCEPT !.pc = "gather", !.resp = resp,
                                  !.fetches = @ + 1,
                                  !.phases = Append(@, "fetch")]
            /\ tasks' = [t \in TaskSet |-> [st |-> "created", res |-> Returned(<<>>)]]
            /\ objs' = objs
    /\ UNCHANGED <<redis, finished>>
    /\ UNCHANGED restOfAcq

\* a subtask's function starts in a worker thread
TaskStart(t) ==
    /\ tasks[t].st = "created"
    /\ tasks' = [tasks EXCEPT ![t].st = "running"]
    /\ acq' = [acq EXCEPT !.phases = IF acq.pc = "gather" /\ "extract" \notin
                                          {acq.phases[k] : k \in 1..Len(acq.phases)}
                                       THEN Append(@, "extract") ELSE @]
    /\ UNCHANGED <<objs, redis, finished>>
    /\ UNCHANGED restOfAcq

\* a subtask's function returns or raises
TaskFinish(t) ==
    LET res == Extract(t, acq.resp.page) IN
    /\ tasks[t].st = "running"
    /\ tasks' = [tasks EXCEPT ![t] = [st |-> TaskOutcome(res), res |-> res]]
    /\ finished' = Append(finished, t)
    /\ UNCHANGED <<acq, objs, redis>>
    /\ UNCHANGED restOfAcq

\* gather raises a subtask's exception, scrape_album turns it into 503
GatherRaises ==
    /\ acq.pc = "gather"
    /\ AnyRaised(tasks)
    /\ AcqRaise(ScraperRaises("Error"))
    /\ UNCHANGED <<redis, tasks, finished>>
    /\ UNCHANGED restOfAcq

\* gather returns the four results, the Album is assembled and returned to
\* the handler, which awaits set_cache
GatherReturns ==
    /\ acq.pc = "gather"
    /\ ~AnyRaised(tasks)
    /\ AllDone(tasks)
    /\ acq' = [acq EXCEPT !.pc = "set_cache",
                          !.album = AssembleAlbum("title", "artist", acq.resp.page,
                                                  Gathered(tasks, finished)),
                          !.phases = Append(@, "assemble")]
    /\ UNCHANGED <<objs, redis, tasks, finished>>
    /\ UNCHANGED restOfAcq

\* get_similar_albums: the fetch of the listing returns, the loop begins
AcqListingReturns(resp) ==
    /\ acq.pc = "listing"
    /\ IF resp.raised
       THEN AcqRaise(ScraperRaises("Error"))
       ELSE /\ acq' = [acq EXCEPT !.pc = "blocks", !.listing = resp.page, !.i = 1,
                                  !.phases = Append(@, "fetch")]
            /\ objs' = objs
    /\ UNCHANGED <<redis, tasks, finished>>
    /\ UNCHANGED restOfAcq

\* one iteration of the loop, the block's album page answering resp
AcqBlock(resp) ==
    LET r == ScrapeBlock(acq.listing[acq.i], resp) IN
    /\ acq.pc = "blocks"
    /\ acq.i <= Len(acq.listing)
    /\ acq' = [acq EXCEPT !.similar = IF r.exc = "none" THEN Append(@, r.val) ELSE @,
                          !.i = NextBlock(@, Len(acq.listing),
                                          r.exc \notin {"none", "no_link"}),
                          !.blockres = Append(@, r)]
    /\ UNCHANGED <<objs, redis, tasks, finished>>
    /\ UNCHANGED restOfAcq

\* the loop is over: return similar_albums to the handler, which awaits
\* set_cache
AcqLoopEnds ==
    /\ acq.pc = "blocks"
    /\ acq.i > Len(acq.listing)
    /\ acq' = [acq EXCEPT !.pc = "set_cache"]
    /\ UNCHANGED <<objs, redis, tasks, finished>>
    /\ UNCHANGED restOfAcq

\* get_user_profile returns or raises
AcqProfileReturns(resp) ==
    LET r == GetUserProfile(resp, AcqArg) IN
    /\ acq.pc = "profile"
    /\ IF r.exc # "none"
       THEN AcqRaise(r.exc)
       ELSE /\ acq' = [acq EXCEPT !.pc = "set_cache", !.profile = r.val,
                                  !.phases = Append(@, "fetch")]
            /\ objs' = objs
    /\ UNCHANGED <<redis, tasks, finished>>
    /\ UNCHANGED restOfAcq

\* what the handler passes to set_cache and returns
AcqResult(a) ==
    CASE a.kind = "album" -> a.album
      [] a.kind = "similar" -> a.similar
      [] a.kind = "user" -> a.profile

\* set_cache returns, the response time is recorded, the result returned
AcqSetCacheReturns(ok, duration) ==
    /\ acq.pc = "set_cache"
    /\ redis' = SetCache(redis, CacheKey(acq.kind, AcqArg), AcqResult(acq),
                         TtlOf(acq.kind), ok)
    /\ objs' = [objs EXCEPT ![mref] = RecordResponseTime(@, duration)]
    /\ acq' = [acq EXCEPT !.pc = "done", !.status = 200]
    /\ UNCHANGED <<tasks, finished>>
    /\ UNCHANGED restOfAcq

\* the answers that may arrive for the fetch awaited at pc: none while the
\* request is elsewhere
Awaited(pc, responses) == IF acq.pc = pc THEN responses ELSE {}

AcqNext ==
    \/ \E kind \in Kinds, ok \in BOOLEAN : AcqCall(kind, ok)
    \/ \E outcome \in {"raise", "no_block", "found"} : AcqSearchReturns(outcome)
    \/ \E resp \in Awaited("fetch", AlbumResponses) : AcqFetchReturns(resp)
    \/ \E t \in TaskSet : TaskStart(t)
    \/ \E t \in TaskSet : TaskFinish(t)
    \/ GatherRaises
    \/ GatherReturns
    \/ \E resp \in Awaited("listing", ListingResponses) : AcqListingReturns(resp)
    \/ \E resp \in BlockResponses : AcqBlock(resp)
    \/ AcqLoopEnds
    \/ \E resp \in Awaited("profile", ProfileResponses) : AcqProfileReturns(resp)
    \/ \E ok \in BOOLEAN, duration \in Durations : AcqSetCacheReturns(ok, duration)

(***************************************************************************)
(* Properties of the acquisitions.                                         *)
(***************************************************************************)
AcqKey == CacheKey(acq.kind, AcqArg)

\* set_cache has stored a value under the request's key (it always stores
\* with a positive time to live)
Written == redis[AcqKey].ttl > 0

\* the page fetched makes some extraction subtask raise
SomeExtractorRaises == \E t \in TaskSet : Extract(t, acq.resp.page).exc # "none"

\* C11: album acquisition is all-or-nothing.  An Album is assembled only when
\* all four subtasks completed without raising; once the page makes any of
\* them raise, whatever the order they complete in, the request ends in 503
\* and no Album is returned or written to the cache.
C11_AllOrNothing ==
    acq.kind = "album" =>
        /\ acq.album # NoAlbum =>
              \A t \in TaskSet : tasks[t].st = "done" /\ Extract(t, acq.resp.page).exc = "none"
        /\ (acq.fetches = 1 /\ SomeExtractorRaises) =>
              /\ acq.album = NoAlbum
              /\ ~Written
              /\ acq.status # 200
              /\ acq.pc = "done" => acq.status = 503

\* a subtask raised after the three others had completed, and the request
\* ended in 503
C11_Witness ==
    /\ acq.kind = "album" /\ acq.pc = "done" /\ acq.status = 503
    /\ Len(finished) = 4
    /\ tasks[finished[4]].st = "raised"
    /\ \A k \in 1..3 : tasks[finished[k]].st = "done"
    /\ tasks["tracks"].res.val # <<>>

\* the items of a region with the malformed ones left out, in page order
WellFormed(rows, Item(_)) == KeepReturned([i \in 1..Len(rows) |-> Item(rows[i])])

\* C12: per-item containment.  A malformed track row, critic review or user
\* review is skipped: the album acquisition succeeds with the remaining
\* well-formed items of each region, in order.
C12_MalformedItemSkipped ==
    (acq.kind = "album" /\ acq.pc = "done" /\ acq.fetches = 1 /\ ~acq.resp.raised) =>
        /\ acq.status = 200
        /\ acq.album.tracks = WellFormed(acq.resp.page.tracks, ParseTrackRow)
        /\ acq.album.critic_reviews = WellFormed(acq.resp.page.critics, ParseCriticBlock)
        /\ acq.album.popular_reviews = WellFormed(acq.resp.page.users, ParseUserBlock)

\* the positions of the processed blocks whose album was acquired
Acquired == {k \in 1..Len(acq.blockres) : acq.blockres[k].exc = "none"}

\* C13: the fan-out over a similar-albums listing is skip-on-error.  Once the
\* listing is fetched, the blocks are processed one after another whatever
\* fails in them, and the request succeeds with exactly the albums of the
\* blocks whose acquisition succeeded, in listing order.
C13_SkipOnError ==
    (acq.kind = "similar" /\ acq.pc \in {"blocks", "set_cache", "done"}
        /\ Len(acq.phases) >= 2) =>
        /\ Len(acq.blockres) = (IF acq.pc = "blocks" THEN acq.i - 1 ELSE Len(acq.listing))
        /\ Len(acq.similar) = Cardinality(Acquired)
        /\ \A j \in 1..Len(acq.similar) : acq.similar[j].title \in Acquired
        /\ \A j, k \in 1..Len(acq.similar) :
              j < k => acq.similar[j].title < acq.similar[k].title
        /\ acq.pc = "done" =>
              /\ acq.status = 200
              /\ Written => JsonLoads(redis[AcqKey].str) = acq.similar

\* four blocks, the third one's acquisition failed: the albums of blocks 1, 2
\* and 4 are returned
C13_Witness ==
    /\ acq.kind = "similar" /\ acq.pc = "done" /\ acq.status = 200
    /\ Len(acq.listing) = 4
    /\ acq.blockres[3].exc = "HTTP503"
    /\ [j \in 1..Len(acq.similar) |-> acq.similar[j].title] = <<1, 2, 4>>

\* C15: a fetch failure is surfaced and not retried.  When the fetch of the
\* album page ends in a transport error or in a response that is not 2xx, the
\* request ends in 503 and no Album is assembled from that response; the
\* page is fetched at most once.
C15_FetchFailureSurfaced ==
    acq.kind = "album" =>
        /\ acq.fetches <= 1
        /\ (acq.fetches = 1 /\ (acq.resp.raised \/ acq.resp.status \notin 200..299)) =>
              /\ acq.album = NoAlbum
              /\ acq.status # 200
              /\ acq.pc = "done" => acq.status = 503

\* C16: album acquisition is deterministic for unchanged markup.  Whatever
\* order the four subtasks start and complete in, the Album assembled is the
\* one value that the url's page, the artist and the title determine: each
\* result is in its own field, the collections in page order.
C16_Deterministic ==
    (acq.kind = "album" /\ acq.album # NoAlbum) =>
        /\ acq.album = ScrapeAlbum(acq.resp, "artist", "title").val
        /\ acq.album.tracks = ParseTracks(acq.resp.page.tracks).val
        /\ acq.album.buy_links = ParseBuyLinks(acq.resp.page.buy).val

\* an Album assembled from subtasks that completed in the reverse of the
\* order they were created in, each with a result of its own
C16_Witness ==
    /\ acq.kind = "album" /\ acq.pc = "done" /\ acq.status = 200
    /\ finished = <<"buy_links", "popular_reviews", "critic_reviews", "tracks">>
    /\ Len(acq.album.tracks) = 2
    /\ Len(acq.album.critic_reviews) = 2
    /\ acq.album.critic_reviews[1] # acq.album.critic_reviews[2]
    /\ Len(acq.album.popular_reviews) = 1
    /\ Len(acq.resp.page.users) = 2
    /\ Len(acq.album.buy_links) = 1

\* C17: every UserProfile assembled has a stats mapping with exactly the keys
\* ratings, reviews, lists and followers, each a non-negative integer (0 for a
\* bucket that cannot be extracted).
C17_StatsFourKeys ==
    (acq.kind = "user" /\ acq.profile # NoProfile) =>
        /\ DOMAIN acq.profile.stats = {StatKeys[i] : i \in 1..4}
        /\ \A k \in DOMAIN acq.profile.stats : acq.profile.stats[k] \in Nat

\* C18: the order within one album acquisition.  No subtask exists before the
\* page fetch has returned, and the Album is assembled only once all four
\* subtasks have completed: never while one has not started or is running.
C18_FetchExtractAssemble ==
    acq.kind = "album" =>
        /\ (\E t \in TaskSet : tasks[t].st # "none") =>
              /\ acq.fetches = 1 /\ ~acq.resp.raised
              /\ Len(acq.phases) >= 2 /\ acq.phases[2] = "fetch"
        /\ (\E t \in TaskSet : tasks[t].st \in {"running", "done", "raised"}) =>
              Len(acq.phases) >= 3 /\ acq.phases[3] = "extract"
        /\ acq.album # NoAlbum =>
              /\ \A t \in TaskSet : tasks[t].st = "done"
              /\ Len(finished) = 4
              /\ acq.phases = <<"resolve", "fetch", "extract", "assemble">>

\* the handler holds the Album just assembled, after the last of the four
\* subtasks, the tracks extractor, completed
C18_Witness ==
    /\ acq.kind = "album" /\ acq.pc = "set_cache" /\ acq.album # NoAlbum
    /\ Len(finished) = 4 /\ finished[4] = "tracks"
    /\ Len(acq.album.tracks) = 1

\* the pages served where only progress is of interest
LiveAlbumResponses == BlockResponses

LiveProfileResponses ==
    {NoResponse,
     Response(200, [header |-> FALSE, stats |-> <<>>, dist |-> <<>>]),
     Response(200, [header |-> TRUE, stats |-> <<"5", "5", None, "1,234">>, dist |-> <<>>])}

AcqLiveNext ==
    \/ \E kind \in Kinds, ok \in BOOLEAN : AcqCall(kind, ok)
    \/ \E outcome \in {"raise", "no_block", "found"} : AcqSearchReturns(outcome)
    \/ \E resp \in LiveAlbumResponses : AcqFetchReturns(resp)
    \/ \E t \in TaskSet : TaskStart(t)
    \/ \E t \in TaskSet : TaskFinish(t)
    \/ GatherRaises
    \/ GatherReturns
    \/ \E resp \in Awaited("listing", ListingResponses) : AcqListingReturns(resp)
    \/ \E resp \in BlockResponses : AcqBlock(resp)
    \/ AcqLoopEnds
    \/ \E resp \in LiveProfileResponses : AcqProfileReturns(resp)
    \/ \E ok \in BOOLEAN, duration \in Durations : AcqSetCacheReturns(ok, duration)

IsPrefix(p, q) == Len(p) <= Len(q) /\ \A k \in 1..Len(p) : p[k] = q[k]

\* C19: every started acquisition terminates.  With every fetch returning or
\* failing and the subtasks scheduled fairly, a request that was received
\* ends, in 200, 404 or 503; a get_album passes through resolve, fetch,
\* extract, assemble in that order only; a get_similar_albums loop processes
\* each block of its listing at most once, moving on after each.
C19_Terminates ==
    /\ (acq.pc # "idle") ~> (acq.pc = "done")
    /\ [](acq.pc = "done" => acq.status \in {200, 404, 503})
    /\ [](acq.kind = "album" => IsPrefix(acq.phases, <<"resolve", "fetch", "extract", "assemble">>))
    /\ [](Len(acq.blockres) <= Len(acq.listing))
    /\ [][acq'.blockres # acq.blockres =>
             /\ acq'.i = acq.i + 1
             /\ Len(acq'.blockres) = acq.i]_vars

\* a get_similar_albums request has ended after a listing of three blocks of
\* which the first two failed
C19_Witness ==
    /\ acq.kind = "similar" /\ acq.pc = "done"
    /\ Len(acq.listing) = 3 /\ Len(acq.blockres) = 3
    /\ acq.blockres[1].exc = "HTTP503" /\ acq.blockres[2].exc = "AttributeError"
    /\ Len(acq.similar) = 1

(***************************************************************************)
(* The specifications: each runs one component and leaves the others as    *)
(* they were constructed.                                                  *)
(***************************************************************************)
Init == CacheInit /\ ConcInit /\ MetricsInit /\ ApiInit /\ AcqInit

\* the LRUCache called by one caller at a time
Next == CacheNext

Spec == Init /\ [][Next]_vars

\* the LRUCache called by concurrent threads
\* A thread that can run its next statement does so; a thread waiting for
\* the lock gets it if the lock is free again and again.
ConcFair ==
    \A t \in Threads :
        /\ WF_vars(ConcRun(t))
        /\ SF_vars(ConcEnter(t))

ConcSpec == Init /\ [][ConcNext]_vars /\ ConcFair

\* the MetricsCollector called by concurrent threads
MetricsSpec == Init /\ [][MetricsNext]_vars

\* the API serving requests
ApiSpec == Init /\ [][ApiNext]_vars

\* one request followed through the scraper
AcqSpec == Init /\ [][AcqNext]_vars

BackendSpec == Init /\ [][BackendNext]_vars

\* every fetch returns or fails, the subtasks and the event loop get to run
AcqLiveFair ==
    /\ WF_vars(\E outcome \in {"raise", "no_block", "found"} : AcqSearchReturns(outcome))
    /\ WF_vars(\E resp \in LiveAlbumResponses : AcqFetchReturns(resp))
    /\ \A t \in TaskSet : WF_vars(TaskStart(t)) /\ WF_vars(TaskFinish(t))
    /\ WF_vars(GatherRaises)
    /\ WF_vars(GatherReturns)
    /\ WF_vars(\E resp \in ListingResponses : AcqListingReturns(resp))
    /\ WF_vars(\E resp \in BlockResponses : AcqBlock(resp))
    /\ WF_vars(AcqLoopEnds)
    /\ WF_vars(\E resp \in LiveProfileResponses : AcqProfileReturns(resp))
    /\ WF_vars(\E ok \in BOOLEAN, duration \in Durations : AcqSetCacheReturns(ok, duration))

\* the same request, with the scheduling that progress rests on
AcqLiveSpec == Init /\ [][AcqLiveNext]_vars /\ AcqLiveFair

=============================================================================
